---- MODULE Spec2Model ----
(***************************************************************************)
(* od2net: the green_mazovia Level-of-Traffic-Stress classifier            *)
(* (lts/src/green_mazovia.rs) and the batch routing tool (src/main.rs).    *)
(*                                                                         *)
(* Five specifications share the variables below:                          *)
(*   Spec        green_mazovia run on one tag set, one step per stage      *)
(*   SpecStages  each stage function applied on its own to any tag set     *)
(*   SpecLoad    Request::load_from_geojson, one step per feature          *)
(*   SpecBatch   the buffer_unordered dispatch and fold of main               *)
(*   SpecBatchFair  SpecBatch with the scheduling fairness                 *)
(***************************************************************************)
EXTENDS Integers, Sequences, FiniteSets, TLC

VARIABLES
    \* ---- green_mazovia ----
    tags,          \* the Tags the classifier was called with (key -> value)
    pc,            \* position in green_mazovia
    msgs,          \* the Vec<String> trail
    result,        \* the LTS returned
    calls,         \* the stage functions invoked so far, in order
    ret,           \* what the most recent stage function returned
    speed_limit,   \* what parse::get_maxspeed_kmph returned, NoSpeed before
    \* ---- Request::load_from_geojson ----
    sample_requests, \* Args::sample_requests
    features,      \* which input collection is read
    total,         \* the local counter total
    kept,          \* features that passed the sampling test
    requests,      \* the Vec<Request>, as the indices of the features pushed
    lpc,           \* position in load_from_geojson
    \* ---- main: dispatch and fold ----
    concurrency,   \* Args::concurrency
    num_requests,  \* requests.len()
    iter_pos,      \* how many requests stream::iter has handed out
    stream_done,   \* the fused inner stream has returned None
    in_progress,   \* BufferUnordered's in_progress_queue (request ids)
    task,          \* per request: the spawned tokio task's state
    progress,      \* progress bar position
    errors,        \* Counts::errors
    count_per_edge,\* Counts::count_per_edge
    folded,        \* per request: how often the fold closure saw its result
    bpc            \* position in main

lts_vars   == <<tags, pc, msgs, result, calls, ret, speed_limit>>
load_vars  == <<sample_requests, features, total, kept, requests, lpc>>
batch_vars == <<concurrency, num_requests, iter_pos, stream_done, in_progress,
                task, progress, errors, count_per_edge, folded, bpc>>
vars == <<lts_vars, load_vars, batch_vars>>

(***************************************************************************)
(* Tags: keys are ':'-separated token sequences, so that "cycleway:left"   *)
(* starts with "cycleway".                                                 *)
(***************************************************************************)
K_highway   == <<"highway">>
K_bicycle   == <<"bicycle">>
K_motorroad == <<"motorroad">>
K_access    == <<"access">>
K_crossing  == <<"crossing">>
K_cycleway  == <<"cycleway">>
K_cycleway_left == <<"cycleway", "left">>
K_shoulder  == <<"shoulder", "access", "bicycle">>
K_motor_vehicle == <<"motor_vehicle">>
K_motorcar  == <<"motorcar">>
K_oneway    == <<"oneway">>
K_oneway_bicycle == <<"oneway", "bicycle">>

NoKey == <<>>
Absent == "(absent)"

None == [some |-> FALSE, val |-> "None"]
Some(v) == [some |-> TRUE, val |-> v]

Panic == "panicked: called Option::unwrap() on a None value"

starts_with(key, prefix) ==
    /\ Len(key) >= Len(prefix)
    /\ SubSeq(key, 1, Len(prefix)) = prefix

has(t, k) == k \in DOMAIN t

get(t, k) == IF k \in DOMAIN t THEN Some(t[k]) ELSE None

is(t, k, v) == k \in DOMAIN t /\ t[k] = v

is_any(t, k, values) == k \in DOMAIN t /\ t[k] \in values

\* Every (key, value) the lookup may return; empty means None. Which of several
\* matching tags comes first is the iteration order of the map, left open here.
prefix_is_any(t, prefix, values) ==
    {<<k, t[k]>> : k \in {x \in DOMAIN t : starts_with(x, prefix) /\ t[x] \in values}}

unwrap(opt) == IF opt.some THEN opt.val ELSE Panic

\* The LTS enum.
NotAllowed == "NotAllowed"
LTS1 == "LTS1"
LTS2 == "LTS2"
LTS3 == "LTS3"
LTS4 == "LTS4"
LTS == {NotAllowed, LTS1, LTS2, LTS3, LTS4}

\* One trail entry: the format string, and what is interpolated into it.
Msg(text) == [text |-> text, key |-> NoKey, value |-> ""]
MsgV(text, value) == [text |-> text, key |-> NoKey, value |-> value]
MsgKV(text, key, value) == [text |-> text, key |-> key, value |-> value]

Out(r, m) == [ret |-> r, msgs |-> m]

(***************************************************************************)
(* parse::get_maxspeed_kmph: returns an integer and may append its own      *)
(* diagnostic entry to the trail.                                          *)
(***************************************************************************)
SpeedThreshold == 30
SpeedSpread == 1
Speeds == (SpeedThreshold - SpeedSpread)..(SpeedThreshold + SpeedSpread)
NoSpeed == -1

T_Resolver == "maxspeed diagnostic"

get_maxspeed_kmph(t, m) ==
    {[speed |-> s, msgs |-> m \o d] : s \in Speeds, d \in {<<>>, <<Msg(T_Resolver)>>}}

(***************************************************************************)
(* The trail's format strings.                                             *)
(***************************************************************************)
T_NoHighwayOrBicycle == "Way doesn't have a highway or bicycle tag"
T_Motorroad   == "Bicycles are not allowed on motorroads"
T_BicycleNo   == "Cycling not permitted due to bicycle=no"
T_AccessNo    == "Cycling not permitted due to access=no"
T_HighwayForbidden == "Cycling not permitted due to highway={}"
T_SeparateCycleway == "Cycling not permitted because there is separate cycleway {key}={value}"
T_Footway     == "Cycling not permitted on highway={}, when footway and bicycle=yes|separated|designated is missing"
T_SepSignal   == "This way is a separated path because highway={}, but have a traffic signal"
T_SepCycleway == "This way is a separated path because highway={}"
T_SepDesignated == "This way is a separated path because it is path with designated bike cycleway"
T_GroundPath  == "Ground path can be not suitable for all bicycles"
T_SepTrack    == "This way is a separated path because {key}={value}"
T_LaneTag     == "Way has a bike lane because {key}={value}"
T_LaneShoulder == "Way has a bike lane because shoulder:access:bicycle=yes"
T_LaneAlways  == "Bike lane is always LTS1"
T_Residual    == "This way is a separated path because highway={}, but not suitable for all bicycles"
T_Mixed       == "No bike lane or separated path; treating as mixed traffic"
T_NoMotor     == "Motor vehicles not allowed, so LTS 1"
T_Track       == "LTS 2 because highway=track"
T_Oneway      == "LTS 2 because it is one way highway with bicycles allowed in both directions"
T_Slow        == "LTS 2 because speed is below 30 kmph"
T_Fast        == "LTS 4 because speed is over 30 kmph"
T_NoCategory  == "No categories matched"

LaneValues == {"crossing", "lane", "left", "opposite", "opposite_lane", "right", "yes"}
TrackValues == {"track", "opposite_track"}
ForbiddenHighways == {"motorway", "motorway_link", "proposed", "construction"}
FootwayBicycleValues == {"yes", "separated", "designated"}

(***************************************************************************)
(* The stage functions. Each returns the set of its possible outcomes      *)
(* [ret, msgs]: one outcome, except where prefix_is_any has several        *)
(* matching tags to choose from or the speed resolver is consulted.        *)
(***************************************************************************)
\* Mutant: the access=no rule is left out.
is_cycling_forbidden_without_access(t, m) ==
    IF ~has(t, K_highway) /\ ~has(t, K_bicycle)
    THEN {Out(TRUE, Append(m, Msg(T_NoHighwayOrBicycle)))}
    ELSE IF is(t, K_motorroad, "yes")
    THEN {Out(TRUE, Append(m, Msg(T_Motorroad)))}
    ELSE IF is_any(t, K_bicycle, {"no", "use_sidepath"})
    THEN {Out(TRUE, Append(m, Msg(T_BicycleNo)))}
    ELSE IF is_any(t, K_highway, ForbiddenHighways)
    THEN {Out(TRUE, Append(m, MsgV(T_HighwayForbidden, unwrap(get(t, K_highway)))))}
    ELSE IF prefix_is_any(t, K_cycleway, {"separate"}) # {}
    THEN {Out(TRUE, Append(m, MsgKV(T_SeparateCycleway, kv[1], kv[2]))) :
             kv \in prefix_is_any(t, K_cycleway, {"separate"})}
    ELSE IF is_any(t, K_highway, {"footway"})
            /\ ~is_any(t, K_bicycle, FootwayBicycleValues)
    THEN {Out(TRUE, Append(m, MsgV(T_Footway, unwrap(get(t, K_highway)))))}
    ELSE {Out(FALSE, m)}

is_cycling_forbidden(t, m) ==
    IF ~has(t, K_highway) /\ ~has(t, K_bicycle)
    THEN {Out(TRUE, Append(m, Msg(T_NoHighwayOrBicycle)))}
    ELSE IF is(t, K_motorroad, "yes")
    THEN {Out(TRUE, Append(m, Msg(T_Motorroad)))}
    ELSE IF is_any(t, K_bicycle, {"no", "use_sidepath"})
    THEN {Out(TRUE, Append(m, Msg(T_BicycleNo)))}
    ELSE IF is(t, K_access, "no")
    THEN {Out(TRUE, Append(m, Msg(T_AccessNo)))}
    ELSE IF is_any(t, K_highway, ForbiddenHighways)
    THEN {Out(TRUE, Append(m, MsgV(T_HighwayForbidden, unwrap(get(t, K_highway)))))}
    ELSE IF prefix_is_any(t, K_cycleway, {"separate"}) # {}
    THEN {Out(TRUE, Append(m, MsgKV(T_SeparateCycleway, kv[1], kv[2]))) :
             kv \in prefix_is_any(t, K_cycleway, {"separate"})}
    ELSE IF is_any(t, K_highway, {"footway"})
            /\ ~is_any(t, K_bicycle, FootwayBicycleValues)
    THEN {Out(TRUE, Append(m, MsgV(T_Footway, unwrap(get(t, K_highway)))))}
    ELSE {Out(FALSE, m)}

\* The last rule of separate_path, as the mutants below share it.
separate_path_prefix_rule(t, m) ==
    IF prefix_is_any(t, K_cycleway, TrackValues) # {}
    THEN {Out(Some(LTS1), Append(m, MsgKV(T_SepTrack, kv[1], kv[2]))) :
             kv \in prefix_is_any(t, K_cycleway, TrackValues)}
    ELSE {Out(None, m)}

\* Mutant: the first rule joins its two tests with || instead of &&.
separate_path_or_crossing(t, m) ==
    IF is(t, K_highway, "cycleway") \/ is(t, K_crossing, "traffic_signals")
    THEN {Out(Some(LTS2), Append(m, MsgV(T_SepSignal, unwrap(get(t, K_highway)))))}
    ELSE IF is(t, K_highway, "path") /\ is(t, K_bicycle, "designated")
    THEN {Out(Some(LTS1), Append(m, Msg(T_SepDesignated)))}
    ELSE IF is(t, K_highway, "path")
    THEN {Out(Some(LTS4), Append(m, Msg(T_GroundPath)))}
    ELSE separate_path_prefix_rule(t, m)

\* Mutant: the plain highway=path rule is tested before the designated one.
separate_path_path_first(t, m) ==
    IF is(t, K_highway, "cycleway") /\ is(t, K_crossing, "traffic_signals")
    THEN {Out(Some(LTS2), Append(m, MsgV(T_SepSignal, unwrap(get(t, K_highway)))))}
    ELSE IF is(t, K_highway, "cycleway")
    THEN {Out(Some(LTS1), Append(m, MsgV(T_SepCycleway, unwrap(get(t, K_highway)))))}
    ELSE IF is(t, K_highway, "path")
    THEN {Out(Some(LTS4), Append(m, Msg(T_GroundPath)))}
    ELSE IF is(t, K_highway, "path") /\ is(t, K_bicycle, "designated")
    THEN {Out(Some(LTS1), Append(m, Msg(T_SepDesignated)))}
    ELSE separate_path_prefix_rule(t, m)

\* Mutant: the plain highway=path rule is missing.
separate_path_without_plain_path(t, m) ==
    IF is(t, K_highway, "cycleway") /\ is(t, K_crossing, "traffic_signals")
    THEN {Out(Some(LTS2), Append(m, MsgV(T_SepSignal, unwrap(get(t, K_highway)))))}
    ELSE IF is(t, K_highway, "cycleway")
    THEN {Out(Some(LTS1), Append(m, MsgV(T_SepCycleway, unwrap(get(t, K_highway)))))}
    ELSE IF is(t, K_highway, "path") /\ is(t, K_bicycle, "designated")
    THEN {Out(Some(LTS1), Append(m, Msg(T_SepDesignated)))}
    ELSE separate_path_prefix_rule(t, m)

separate_path(t, m) ==
    IF is(t, K_highway, "cycleway") /\ is(t, K_crossing, "traffic_signals")
    THEN {Out(Some(LTS2), Append(m, MsgV(T_SepSignal, unwrap(get(t, K_highway)))))}
    ELSE IF is(t, K_highway, "cycleway")
    THEN {Out(Some(LTS1), Append(m, MsgV(T_SepCycleway, unwrap(get(t, K_highway)))))}
    ELSE IF is(t, K_highway, "path") /\ is(t, K_bicycle, "designated")
    THEN {Out(Some(LTS1), Append(m, Msg(T_SepDesignated)))}
    ELSE IF is(t, K_highway, "path")
    THEN {Out(Some(LTS4), Append(m, Msg(T_GroundPath)))}
    ELSE IF prefix_is_any(t, K_cycleway, TrackValues) # {}
    THEN {Out(Some(LTS1), Append(m, MsgKV(T_SepTrack, kv[1], kv[2]))) :
             kv \in prefix_is_any(t, K_cycleway, TrackValues)}
    ELSE {Out(None, m)}

\* Mutant: the shoulder branch pushes its entry but does not set has_lane.
is_bike_lane_shoulder_not_counted(t, m) ==
    LET lanes == prefix_is_any(t, K_cycleway, LaneValues)
        afterPrefix == IF lanes # {}
                       THEN {Out(TRUE, Append(m, MsgKV(T_LaneTag, kv[1], kv[2]))) : kv \in lanes}
                       ELSE {Out(FALSE, m)}
    IN  {IF is(t, K_shoulder, "yes")
         THEN Out(o.ret, Append(o.msgs, Msg(T_LaneShoulder)))
         ELSE o : o \in afterPrefix}

\* Mutant: returns at the first condition that matches.
is_bike_lane_short_circuit(t, m) ==
    LET lanes == prefix_is_any(t, K_cycleway, LaneValues)
    IN  IF lanes # {}
        THEN {Out(TRUE, Append(m, MsgKV(T_LaneTag, kv[1], kv[2]))) : kv \in lanes}
        ELSE IF is(t, K_shoulder, "yes")
        THEN {Out(TRUE, Append(m, Msg(T_LaneShoulder)))}
        ELSE {Out(FALSE, m)}

is_bike_lane(t, m) ==
    LET lanes == prefix_is_any(t, K_cycleway, LaneValues)
        afterPrefix == IF lanes # {}
                       THEN {Out(TRUE, Append(m, MsgKV(T_LaneTag, kv[1], kv[2]))) : kv \in lanes}
                       ELSE {Out(FALSE, m)}
    IN  {IF is(t, K_shoulder, "yes")
         THEN Out(TRUE, Append(o.msgs, Msg(T_LaneShoulder)))
         ELSE o : o \in afterPrefix}

non_bicycle_infrastructure(t, m) ==
    IF is(t, K_highway, "path")
    THEN {Out(Some(LTS3), Append(m, MsgV(T_Residual, unwrap(get(t, K_highway)))))}
    ELSE {Out(None, m)}

\* Mutant: the speed test is < instead of <=.
mixed_rules_strict(t, m, s) ==
    IF is(t, K_motor_vehicle, "no") \/ is(t, K_motorcar, "no")
    THEN [ret |-> Some(LTS1), msgs |-> Append(m, Msg(T_NoMotor)), speed |-> s]
    ELSE IF is(t, K_highway, "track")
    THEN [ret |-> Some(LTS2), msgs |-> Append(m, Msg(T_Track)), speed |-> s]
    ELSE IF is(t, K_oneway, "yes") /\ is(t, K_oneway_bicycle, "no")
    THEN [ret |-> Some(LTS2), msgs |-> Append(m, Msg(T_Oneway)), speed |-> s]
    ELSE IF s < SpeedThreshold
    THEN [ret |-> Some(LTS2), msgs |-> Append(m, Msg(T_Slow)), speed |-> s]
    ELSE [ret |-> Some(LTS4), msgs |-> Append(m, Msg(T_Fast)), speed |-> s]

\* is_mixed_traffic after the resolver returned speed limit s and trail m.
mixed_rules(t, m, s) ==
    IF is(t, K_motor_vehicle, "no") \/ is(t, K_motorcar, "no")
    THEN [ret |-> Some(LTS1), msgs |-> Append(m, Msg(T_NoMotor)), speed |-> s]
    ELSE IF is(t, K_highway, "track")
    THEN [ret |-> Some(LTS2), msgs |-> Append(m, Msg(T_Track)), speed |-> s]
    ELSE IF is(t, K_oneway, "yes") /\ is(t, K_oneway_bicycle, "no")
    THEN [ret |-> Some(LTS2), msgs |-> Append(m, Msg(T_Oneway)), speed |-> s]
    ELSE IF s <= SpeedThreshold
    THEN [ret |-> Some(LTS2), msgs |-> Append(m, Msg(T_Slow)), speed |-> s]
    ELSE [ret |-> Some(LTS4), msgs |-> Append(m, Msg(T_Fast)), speed |-> s]

is_mixed_traffic(t, m) ==
    {mixed_rules(t, r.msgs, r.speed) :
        r \in get_maxspeed_kmph(t, Append(m, Msg(T_Mixed)))}

\* An unwrap of None anywhere in the stage aborts the call.
Panicked(m) == \E i \in 1..Len(m) : m[i].value = Panic

(***************************************************************************)
(* The tag sets the classifier is run on: per key, the values tried        *)
(* (Absent: the key is not in the map).                                    *)
(***************************************************************************)
HighwayValues  == {Absent, "motorway", "footway", "cycleway", "path", "track", "residential"}
BicycleValues  == {Absent, "no", "use_sidepath", "yes", "designated", "dismount"}
MotorroadValues == {Absent, "yes"}
AccessValues   == {Absent, "no"}
CrossingValues == {Absent, "traffic_signals"}
CyclewayValues == {Absent, "separate", "track", "lane", "no"}
CyclewayLeftValues == {Absent, "separate", "opposite_track", "yes"}
ShoulderValues == {Absent, "yes"}
MotorVehicleValues == {Absent, "no"}
MotorcarValues == {Absent, "no"}
OnewayValues   == {Absent, "yes"}
OnewayBicycleValues == {Absent, "no"}

MkTags(full) == [k \in {x \in DOMAIN full : full[x] # Absent} |-> full[k]]

NoResult == "(not returned)"
NotCalled == "(not called)"

LtsIdle ==
    /\ tags = <<>>
    /\ pc = "idle"
    /\ msgs = <<>>
    /\ result = NoResult
    /\ calls = <<>>
    /\ ret = NotCalled
    /\ speed_limit = NoSpeed

LtsInit(start) ==
    /\ \E h \in HighwayValues, b \in BicycleValues, mr \in MotorroadValues,
          a \in AccessValues, x \in CrossingValues, c \in CyclewayValues,
          cl \in CyclewayLeftValues, sh \in ShoulderValues,
          mv \in MotorVehicleValues, mc \in MotorcarValues,
          o \in OnewayValues, ob \in OnewayBicycleValues :
        tags = MkTags((K_highway :> h) @@ (K_bicycle :> b) @@ (K_motorroad :> mr)
                      @@ (K_access :> a) @@ (K_crossing :> x) @@ (K_cycleway :> c)
                      @@ (K_cycleway_left :> cl) @@ (K_shoulder :> sh)
                      @@ (K_motor_vehicle :> mv) @@ (K_motorcar :> mc)
                      @@ (K_oneway :> o) @@ (K_oneway_bicycle :> ob))
    /\ pc = start
    /\ msgs = <<>>
    /\ result = NoResult
    /\ calls = <<>>
    /\ ret = NotCalled
    /\ speed_limit = NoSpeed

(***************************************************************************)
(* green_mazovia, one action per stage it calls.                           *)
(***************************************************************************)
Gate ==
    /\ pc = "is_cycling_forbidden"
    /\ \E o \in is_cycling_forbidden(tags, msgs) :
        /\ calls' = Append(calls, "is_cycling_forbidden")
        /\ ret' = o.ret
        /\ msgs' = o.msgs
        /\ IF Panicked(o.msgs) THEN pc' = "panic" /\ result' = result
           ELSE IF o.ret THEN pc' = "return" /\ result' = NotAllowed
           ELSE pc' = "separate_path" /\ result' = result
    /\ UNCHANGED <<tags, speed_limit, load_vars, batch_vars>>

\* Mutant: a matching separate_path does not return; the cascade goes on.
SeparatePath_falls_through ==
    /\ pc = "separate_path"
    /\ \E o \in separate_path(tags, msgs) :
        /\ calls' = Append(calls, "separate_path")
        /\ ret' = o.ret
        /\ msgs' = o.msgs
        /\ pc' = "is_bike_lane"
        /\ result' = IF o.ret.some THEN o.ret.val ELSE result
    /\ UNCHANGED <<tags, speed_limit, load_vars, batch_vars>>

SeparatePath ==
    /\ pc = "separate_path"
    /\ \E o \in separate_path(tags, msgs) :
        /\ calls' = Append(calls, "separate_path")
        /\ ret' = o.ret
        /\ msgs' = o.msgs
        /\ IF Panicked(o.msgs) THEN pc' = "panic" /\ result' = result
           ELSE IF o.ret.some THEN pc' = "return" /\ result' = o.ret.val
           ELSE pc' = "is_bike_lane" /\ result' = result
    /\ UNCHANGED <<tags, speed_limit, load_vars, batch_vars>>

BikeLane ==
    /\ pc = "is_bike_lane"
    /\ \E o \in is_bike_lane(tags, msgs) :
        /\ calls' = Append(calls, "is_bike_lane")
        /\ ret' = o.ret
        /\ IF Panicked(o.msgs) THEN pc' = "panic" /\ result' = result /\ msgs' = o.msgs
           ELSE IF o.ret
           THEN /\ msgs' = Append(o.msgs, Msg(T_LaneAlways))
                /\ pc' = "return"
                /\ result' = LTS1
           ELSE /\ msgs' = o.msgs
                /\ pc' = "non_bicycle_infrastructure"
                /\ result' = result
    /\ UNCHANGED <<tags, speed_limit, load_vars, batch_vars>>

Residual ==
    /\ pc = "non_bicycle_infrastructure"
    /\ \E o \in non_bicycle_infrastructure(tags, msgs) :
        /\ calls' = Append(calls, "non_bicycle_infrastructure")
        /\ ret' = o.ret
        /\ msgs' = o.msgs
        /\ IF Panicked(o.msgs) THEN pc' = "panic" /\ result' = result
           ELSE IF o.ret.some THEN pc' = "return" /\ result' = o.ret.val
           ELSE pc' = "is_mixed_traffic" /\ result' = result
    /\ UNCHANGED <<tags, speed_limit, load_vars, batch_vars>>

\* The last stage, and the fallback of lines 28-29 when it returns None.
MixedTraffic ==
    /\ pc = "is_mixed_traffic"
    /\ \E o \in is_mixed_traffic(tags, msgs) :
        /\ calls' = Append(calls, "is_mixed_traffic")
        /\ ret' = o.ret
        /\ speed_limit' = o.speed
        /\ IF Panicked(o.msgs) THEN pc' = "panic" /\ result' = result /\ msgs' = o.msgs
           ELSE IF o.ret.some
           THEN /\ msgs' = o.msgs
                /\ pc' = "return"
                /\ result' = o.ret.val
           ELSE /\ msgs' = Append(o.msgs, Msg(T_NoCategory))
                /\ pc' = "return"
                /\ result' = NotAllowed
    /\ UNCHANGED <<tags, load_vars, batch_vars>>

(***************************************************************************)
(* Each stage function applied on its own to a tag set and an empty trail. *)
(***************************************************************************)
Returned(name, o) ==
    /\ calls' = <<name>>
    /\ ret' = o.ret
    /\ msgs' = o.msgs
    /\ pc' = IF Panicked(o.msgs) THEN "panic" ELSE "returned"
    /\ UNCHANGED <<tags, result, load_vars, batch_vars>>

CallIsCyclingForbidden ==
    /\ pc = "call"
    /\ \E o \in is_cycling_forbidden(tags, msgs) : Returned("is_cycling_forbidden", o)
    /\ UNCHANGED speed_limit

CallSeparatePath ==
    /\ pc = "call"
    /\ \E o \in separate_path(tags, msgs) : Returned("separate_path", o)
    /\ UNCHANGED speed_limit

CallIsBikeLane ==
    /\ pc = "call"
    /\ \E o \in is_bike_lane(tags, msgs) : Returned("is_bike_lane", o)
    /\ UNCHANGED speed_limit

CallNonBicycleInfrastructure ==
    /\ pc = "call"
    /\ \E o \in non_bicycle_infrastructure(tags, msgs) :
           Returned("non_bicycle_infrastructure", o)
    /\ UNCHANGED speed_limit

CallIsMixedTraffic ==
    /\ pc = "call"
    /\ \E o \in is_mixed_traffic(tags, msgs) :
           Returned("is_mixed_traffic", o) /\ speed_limit' = o.speed

(***************************************************************************)
(* Request::load_from_geojson: one action per feature of the collection.   *)
(***************************************************************************)
Modulus == 1000
MaxFeatures == 1000
SampleChoices == {0, 1, 500, 999, 1000}
Collections == {"lines", "mixed", "long_line"}

\* The geometry of feature i of the collection read.
FeatureKind(collection, i) ==
    IF collection = "lines" THEN "LineString2"
    ELSE IF collection = "mixed"
         THEN IF i % 3 = 0 THEN "Point"
              ELSE IF i % 5 = 0 THEN "NoGeometry" ELSE "LineString2"
    ELSE IF i = 4 THEN "LineString3" ELSE "LineString2"

\* The sampling test of line 174: TRUE when the feature is skipped.
sample_skips(n, sample) == n % Modulus > sample

LoadIdle ==
    /\ sample_requests = 0
    /\ features = "none"
    /\ total = 0
    /\ kept = 0
    /\ requests = <<>>
    /\ lpc = "idle"

LoadInit ==
    /\ sample_requests \in SampleChoices
    /\ features \in Collections
    /\ total = 0
    /\ kept = 0
    /\ requests = <<>>
    /\ lpc = "loop"

\* The body of the for loop, lines 171-189, for the next feature.
NextFeature ==
    /\ lpc = "loop"
    /\ total < MaxFeatures
    /\ total' = total + 1
    /\ IF sample_skips(total + 1, sample_requests)
       THEN UNCHANGED <<kept, requests, lpc>>
       ELSE /\ kept' = kept + 1
            /\ LET kind == FeatureKind(features, total + 1) IN
               IF kind = "LineString2"
               THEN requests' = Append(requests, total + 1) /\ lpc' = lpc
               ELSE IF kind = "LineString3"
               THEN requests' = requests /\ lpc' = "panic"
               ELSE UNCHANGED <<requests, lpc>>
    /\ UNCHANGED <<sample_requests, features, lts_vars, batch_vars>>

\* The collection has no further feature: Ok(requests), line 191.
LoadReturn ==
    /\ lpc = "loop"
    /\ lpc' = "returned"
    /\ UNCHANGED <<sample_requests, features, total, kept, requests, lts_vars, batch_vars>>

(***************************************************************************)
(* main: stream::iter(requests).map(spawn).buffer_unordered(concurrency)   *)
(* folded into Counts.                                                     *)
(***************************************************************************)
MaxRequests == 3
MaxConcurrency == 2
Intersections == {1, 2}
Routes == {<<1, 3, 2>>, <<3, 1, 2>>}
TaskOutcomes == {[kind |-> "Ok", nodes |-> r] : r \in Routes}
                \cup {[kind |-> "Err", nodes |-> <<>>], [kind |-> "JoinError", nodes |-> <<>>]}
Unspawned == [kind |-> "unspawned", nodes |-> <<>>]
Running == [kind |-> "running", nodes |-> <<>>]

Min(a, b) == IF a <= b THEN a ELSE b

\* Mutant: the queue is refilled without regard to its length.
fill_count_unbounded(len, max, remaining) == remaining

\* How many futures the while loop of BufferUnordered::poll_next pulls from the
\* inner stream: until the queue holds `max` or the stream ends.
fill_count(len, max, remaining) ==
    IF len < max THEN Min(max - len, remaining) ELSE 0

\* *count_per_edge.entry(e).or_insert(0) += 1
bump(cpe, e) ==
    IF e \in DOMAIN cpe THEN [cpe EXCEPT ![e] = @ + 1] ELSE cpe @@ (e :> 1)

\* Lines 85-93: walk nodes[k..], counting an edge at every intersection.
RECURSIVE count_route(_, _, _, _)
count_route(cpe, nodes, k, i1) ==
    IF k > Len(nodes) THEN cpe
    ELSE IF nodes[k] \in Intersections
         THEN count_route(bump(cpe, <<i1, nodes[k]>>), nodes, k + 1, nodes[k])
         ELSE count_route(cpe, nodes, k + 1, i1)

BatchIdle ==
    /\ concurrency = 0
    /\ num_requests = 0
    /\ iter_pos = 0
    /\ stream_done = FALSE
    /\ in_progress = {}
    /\ task = <<>>
    /\ progress = 0
    /\ errors = 0
    /\ count_per_edge = <<>>
    /\ folded = <<>>
    /\ bpc = "idle"

BatchInit ==
    /\ concurrency \in 0..MaxConcurrency
    /\ num_requests \in 0..MaxRequests
    /\ iter_pos = 0
    /\ stream_done = FALSE
    /\ in_progress = {}
    /\ task = [i \in 1..num_requests |-> Unspawned]
    /\ progress = 0
    /\ errors = 0
    /\ count_per_edge = <<>>
    /\ folded = [i \in 1..num_requests |-> 0]
    /\ bpc = "fold"

\* A spawned calculate_route task runs to its end on the runtime.
TaskFinish(i) ==
    /\ task[i] = Running
    /\ \E o \in TaskOutcomes : task' = [task EXCEPT ![i] = o]
    /\ UNCHANGED <<concurrency, num_requests, iter_pos, stream_done, in_progress,
                   progress, errors, count_per_edge, folded, bpc, lts_vars, load_vars>>

\* What one poll of the buffered stream does first: refill the queue, spawning
\* a task per request pulled.
Fill ==
    LET n == fill_count(Cardinality(in_progress), concurrency, num_requests - iter_pos)
        pulled == (iter_pos + 1)..(iter_pos + n)
    IN  /\ iter_pos' = iter_pos + n
        /\ task' = [i \in 1..num_requests |-> IF i \in pulled THEN Running ELSE task[i]]
        /\ stream_done' = (stream_done
                           \/ (Cardinality(in_progress) + n < concurrency
                               /\ iter_pos + n = num_requests))

\* The poll finds the finished task i in the queue: the fold closure runs on it.
PollReady(i) ==
    /\ bpc = "fold"
    /\ i \in in_progress
    /\ task[i] \in TaskOutcomes
    /\ Fill
    /\ in_progress' = (in_progress \cup ((iter_pos + 1)..iter_pos')) \ {i}
    /\ progress' = progress + 1
    /\ folded' = [folded EXCEPT ![i] = @ + 1]
    /\ IF task[i].kind = "Ok"
       THEN /\ count_per_edge' = count_route(count_per_edge, task[i].nodes, 2, task[i].nodes[1])
            /\ errors' = errors
       ELSE IF task[i].kind = "Err"
       THEN errors' = errors + 1 /\ count_per_edge' = count_per_edge
       ELSE UNCHANGED <<errors, count_per_edge>>
    /\ UNCHANGED <<concurrency, num_requests, bpc, lts_vars, load_vars>>

\* The poll finds nothing finished: Poll::Pending.
PollPending ==
    /\ bpc = "fold"
    /\ \A i \in in_progress : task[i] \notin TaskOutcomes
    /\ Fill
    /\ in_progress' = in_progress \cup ((iter_pos + 1)..iter_pos')
    /\ ~(in_progress' = {} /\ stream_done')
    /\ UNCHANGED <<concurrency, num_requests, progress, errors, count_per_edge,
                   folded, bpc, lts_vars, load_vars>>

\* The queue is empty and the inner stream is done: the fold ends.
PollEnd ==
    /\ bpc = "fold"
    /\ \A i \in in_progress : task[i] \notin TaskOutcomes
    /\ Fill
    /\ in_progress' = in_progress \cup ((iter_pos + 1)..iter_pos')
    /\ in_progress' = {} /\ stream_done'
    /\ bpc' = "finished"
    /\ UNCHANGED <<concurrency, num_requests, progress, errors, count_per_edge,
                   folded, lts_vars, load_vars>>

Poll == (\E i \in 1..MaxRequests : PollReady(i)) \/ PollPending \/ PollEnd

(***************************************************************************)
(* The specifications.                                                     *)
(***************************************************************************)
Init == LtsInit("is_cycling_forbidden") /\ LoadIdle /\ BatchIdle
Next == Gate \/ SeparatePath \/ BikeLane \/ Residual \/ MixedTraffic
Spec == Init /\ [][Next]_vars

InitStages == LtsInit("call") /\ LoadIdle /\ BatchIdle
NextStages ==
    \/ CallIsCyclingForbidden
    \/ CallSeparatePath
    \/ CallIsBikeLane
    \/ CallNonBicycleInfrastructure
    \/ CallIsMixedTraffic
SpecStages == InitStages /\ [][NextStages]_vars

InitLoad == LtsIdle /\ LoadInit /\ BatchIdle
NextLoad == NextFeature \/ LoadReturn
SpecLoad == InitLoad /\ [][NextLoad]_vars

InitBatch == LtsIdle /\ LoadIdle /\ BatchInit
NextBatch ==
    \/ \E i \in 1..MaxRequests : i <= num_requests /\ TaskFinish(i)
    \/ \E i \in 1..MaxRequests : PollReady(i)
    \/ PollPending
    \/ PollEnd
SpecBatch == InitBatch /\ [][NextBatch]_vars
\* The runtime runs every spawned task to its end and polls the fold whenever
\* a task it waits for has finished.
SpecBatchFair ==
    /\ SpecBatch
    /\ WF_vars(Poll)
    /\ \A i \in 1..MaxRequests : WF_vars(i <= num_requests /\ TaskFinish(i))

(***************************************************************************)
(* The rules as the specification words them, read off the tag map         *)
(* directly.                                                               *)
(***************************************************************************)
Tag(t, k) == IF k \in DOMAIN t THEN t[k] ELSE Absent
CyclewayFamily(t) == {k \in DOMAIN t : k[1] = "cycleway"}
CyclewayMatches(t, values) == {k \in CyclewayFamily(t) : t[k] \in values}

GateRule(t) ==
    \/ Tag(t, K_highway) = Absent /\ Tag(t, K_bicycle) = Absent
    \/ Tag(t, K_motorroad) = "yes"
    \/ Tag(t, K_bicycle) \in {"no", "use_sidepath"}
    \/ Tag(t, K_access) = "no"
    \/ Tag(t, K_highway) \in {"motorway", "motorway_link", "proposed", "construction"}
    \/ CyclewayMatches(t, {"separate"}) # {}
    \/ Tag(t, K_highway) = "footway" /\ Tag(t, K_bicycle) \notin {"yes", "separated", "designated"}

SepExpected(t) ==
    CASE Tag(t, K_highway) = "cycleway" /\ Tag(t, K_crossing) = "traffic_signals" -> Some(LTS2)
      [] Tag(t, K_highway) = "cycleway" /\ Tag(t, K_crossing) # "traffic_signals" -> Some(LTS1)
      [] Tag(t, K_highway) = "path" /\ Tag(t, K_bicycle) = "designated" -> Some(LTS1)
      [] Tag(t, K_highway) = "path" /\ Tag(t, K_bicycle) # "designated" -> Some(LTS4)
      [] Tag(t, K_highway) \notin {"cycleway", "path"}
         /\ CyclewayMatches(t, {"track", "opposite_track"}) # {} -> Some(LTS1)
      [] OTHER -> None

LaneRule(t) ==
    \/ CyclewayMatches(t, {"crossing", "lane", "left", "opposite", "opposite_lane",
                           "right", "yes"}) # {}
    \/ Tag(t, K_shoulder) = "yes"

MixedExpected(t, s) ==
    CASE Tag(t, K_motor_vehicle) = "no" \/ Tag(t, K_motorcar) = "no" -> LTS1
      [] OTHER ->
         IF Tag(t, K_highway) = "track" THEN LTS2
         ELSE IF Tag(t, K_oneway) = "yes" /\ Tag(t, K_oneway_bicycle) = "no" THEN LTS2
         ELSE IF s <= 30 THEN LTS2
         ELSE LTS4

StageOrder == <<"is_cycling_forbidden", "separate_path", "is_bike_lane",
                "non_bicycle_infrastructure", "is_mixed_traffic">>
LaneTexts == {T_LaneTag, T_LaneShoulder, T_LaneAlways}
MixedTexts == {T_Mixed, T_NoMotor, T_Track, T_Oneway, T_Slow, T_Fast, T_NoCategory}
Texts(m) == {m[i].text : i \in 1..Len(m)}
Last(q) == q[Len(q)]
Definite(name, r) ==
    IF name \in {"is_cycling_forbidden", "is_bike_lane"} THEN r = TRUE ELSE r.some

(***************************************************************************)
(* Claims about green_mazovia (Spec)                                       *)
(***************************************************************************)

\* C1 Prohibition precedence: whenever one of the seven gate rules holds of the
\* tag set, green_mazovia returns NotAllowed right after the gate, whatever
\* else is tagged.
C1_ProhibitionPrecedence ==
    (GateRule(tags) /\ pc # "is_cycling_forbidden")
        => (pc = "return" /\ result = NotAllowed /\ calls = <<"is_cycling_forbidden">>)

C1_Witness ==
    /\ pc = "return"
    /\ result = NotAllowed
    /\ Tag(tags, K_access) = "no"
    /\ Tag(tags, K_highway) = "cycleway"
    /\ Tag(tags, K_cycleway) = "lane"
    /\ Tag(tags, K_motor_vehicle) = "no"
    /\ ~has(tags, K_bicycle) /\ ~has(tags, K_motorroad) /\ ~has(tags, K_cycleway_left)

\* C2 Stage precedence: the stages are called in the fixed order, the call
\* sequence ends exactly at the first stage with a definite result, and nothing
\* runs after it; when no gate rule holds and a Separated-Path rule matches, the
\* outcome is the outcome of that rule and the trail holds no bike-lane,
\* residual, mixed-traffic or speed-resolver entry.
C2_StagePrecedence ==
    /\ calls = SubSeq(StageOrder, 1, Len(calls))
    /\ calls # <<>> => (pc = "return" <=> Definite(Last(calls), ret))
    /\ pc = "return" => ~ENABLED Next
    /\ (~GateRule(tags) /\ SepExpected(tags).some
            /\ pc \notin {"is_cycling_forbidden", "separate_path"})
        => /\ pc = "return"
           /\ result = SepExpected(tags).val
           /\ calls = <<"is_cycling_forbidden", "separate_path">>
           /\ Texts(msgs) \cap (LaneTexts \cup {T_Residual, T_Resolver} \cup MixedTexts) = {}
           /\ speed_limit = NoSpeed

C2_Witness ==
    /\ pc = "return"
    /\ calls = <<"is_cycling_forbidden", "separate_path">>
    /\ result = LTS4
    /\ Tag(tags, K_highway) = "path"
    /\ Tag(tags, K_cycleway) = "lane"
    /\ Tag(tags, K_shoulder) = "yes"
    /\ Tag(tags, K_motor_vehicle) = "no"

\* C3 Totality: green_mazovia never faults (no unwrap of a missing highway
\* tag), never gets stuck before it returns, makes at most five stage calls, and
\* returns exactly one LTS value together with a trail.
C3_Totality ==
    /\ pc # "panic"
    /\ \A i \in 1..Len(msgs) : msgs[i].value # Panic
    /\ Len(calls) <= 5
    /\ pc # "return" => (result = NoResult /\ ENABLED Next)
    /\ pc = "return" => (result \in LTS /\ Len(msgs) >= 1)

C3_Witness ==
    /\ pc = "return"
    /\ ~has(tags, K_highway)
    /\ Tag(tags, K_bicycle) = "yes"
    /\ Tag(tags, K_crossing) = "traffic_signals"
    /\ result \in LTS
    /\ Len(calls) = 5

\* C5 Bike lane is always Stress-1: when no gate rule and no Separated-Path
\* rule matches and a bike-lane condition holds, green_mazovia returns LTS1 at
\* the third stage, whatever the speed limit and the other tags.
C5_BikeLaneAlwaysLTS1 ==
    (~GateRule(tags) /\ ~SepExpected(tags).some /\ LaneRule(tags)
        /\ pc \notin {"is_cycling_forbidden", "separate_path", "is_bike_lane"})
        => (pc = "return" /\ result = LTS1 /\ Last(calls) = "is_bike_lane")

C5_Witness ==
    /\ pc = "return"
    /\ result = LTS1
    /\ Last(calls) = "is_bike_lane"
    /\ Tag(tags, K_shoulder) = "yes"
    /\ CyclewayFamily(tags) = {}
    /\ Tag(tags, K_highway) = "track"
    /\ Tag(tags, K_oneway) = "yes"

\* C9 Only stages 1, 2, 3 and 5 decide: the residual stage always returns None
\* (no highway=path segment reaches it), the fallback is never taken, LTS3 is
\* never returned, and NotAllowed is returned only when a gate rule holds.
C9_OnlyFourStagesDecide ==
    /\ (calls # <<>> /\ Last(calls) = "non_bicycle_infrastructure")
        => (ret = None /\ Tag(tags, K_highway) # "path" /\ pc = "is_mixed_traffic")
    /\ pc = "return"
        => /\ Last(calls) \in {"is_cycling_forbidden", "separate_path",
                               "is_bike_lane", "is_mixed_traffic"}
           /\ result # LTS3
           /\ T_NoCategory \notin Texts(msgs)
           /\ T_Residual \notin Texts(msgs)
           /\ result = NotAllowed => (GateRule(tags) /\ calls = <<"is_cycling_forbidden">>)

C9_Witness ==
    /\ calls # <<>>
    /\ Last(calls) = "non_bicycle_infrastructure"
    /\ ret = None
    /\ Tag(tags, K_highway) = "residential"

\* C10 The Bike-Lane Detector is cumulative: when it returns true the trail is
\* the entry naming a matching cycleway-prefixed tag (if one matches), then the
\* shoulder entry (if the shoulder tag is yes), then "Bike lane is always LTS1"
\* last; when it returns false the trail is left empty.
C10_LaneTrail ==
    (Len(calls) >= 3)
        => LET byPrefix == CyclewayMatches(tags, LaneValues) # {}
               byShoulder == Tag(tags, K_shoulder) = "yes"
               n == (IF byPrefix THEN 1 ELSE 0) + (IF byShoulder THEN 1 ELSE 0)
           IN  IF n = 0
               THEN /\ pc # "is_bike_lane"
                    /\ Len(calls) = 3 => (ret = FALSE /\ msgs = <<>>)
                    /\ LaneTexts \cap Texts(msgs) = {}
               ELSE /\ pc = "return" /\ Len(calls) = 3 /\ ret = TRUE
                    /\ Len(msgs) = n + 1
                    /\ byPrefix => /\ msgs[1].text = T_LaneTag
                                   /\ msgs[1].key \in CyclewayMatches(tags, LaneValues)
                                   /\ msgs[1].value = tags[msgs[1].key]
                    /\ byShoulder => msgs[n] = Msg(T_LaneShoulder)
                    /\ msgs[n + 1] = Msg(T_LaneAlways)

C10_Witness ==
    /\ pc = "return"
    /\ Len(msgs) = 3
    /\ msgs[1] = MsgKV(T_LaneTag, K_cycleway_left, "yes")
    /\ msgs[2] = Msg(T_LaneShoulder)
    /\ msgs[3] = Msg(T_LaneAlways)

(***************************************************************************)
(* Claims about the stage functions on their own (SpecStages)              *)
(***************************************************************************)

\* C4 separate_path returns the outcome of the first matching rule of its
\* ordered list, None when no rule matches, and appends exactly one trail entry
\* when a rule matches and none otherwise.
C4_SeparatePathFirstMatch ==
    (calls = <<"separate_path">>)
        => /\ pc = "returned"
           /\ ret = SepExpected(tags)
           /\ Len(msgs) = IF SepExpected(tags).some THEN 1 ELSE 0

C4_Witness ==
    /\ calls = <<"separate_path">>
    /\ Tag(tags, K_highway) = "path"
    /\ Tag(tags, K_bicycle) = "designated"
    /\ Tag(tags, K_cycleway) = "track"
    /\ ret = Some(LTS1)
    /\ msgs = <<Msg(T_SepDesignated)>>

\* C6 is_mixed_traffic always returns Some outcome, the one of the first
\* matching rule: no motor vehicles gives LTS1, else highway=track LTS2, else a
\* one-way with contraflow cycling LTS2, else a speed limit of at most 30 LTS2,
\* else LTS4.
C6_MixedTrafficFirstMatch ==
    (calls = <<"is_mixed_traffic">>)
        => /\ pc = "returned"
           /\ ret.some
           /\ speed_limit \in Speeds
           /\ ret.val = MixedExpected(tags, speed_limit)
           /\ msgs[1] = Msg(T_Mixed)

C6_Witness ==
    /\ calls = <<"is_mixed_traffic">>
    /\ speed_limit = 30
    /\ ret = Some(LTS2)
    /\ Last(msgs) = Msg(T_Slow)
    /\ Tag(tags, K_highway) = "residential"

(***************************************************************************)
(* Claims about the batch tool (SpecLoad, SpecBatchFair)                   *)
(***************************************************************************)
InFlight ==
    Cardinality({i \in 1..num_requests : task[i] # Unspawned /\ folded[i] = 0})
FoldedTotal(k) == Cardinality({i \in 1..num_requests : folded[i] = k})
BoundedAndOnce ==
    /\ InFlight <= concurrency
    /\ \A i \in 1..num_requests : folded[i] <= 1
    /\ progress = FoldedTotal(1)
AllFolded ==
    /\ bpc = "finished"
    /\ \A i \in 1..num_requests : task[i] \in TaskOutcomes /\ folded[i] = 1
    /\ progress = num_requests

C8_PerMilleSampling ==
    /\ (total > 0 /\ total % 1000 = 0) => kept = sample_requests * (total \div 1000)
    /\ sample_requests = 0 => (kept = 0 /\ requests = <<>>)
    /\ sample_requests = 1000 => kept = total

====
